---- MODULE Spec2Model ----
(***************************************************************************)
(* PRSTOCKS python-backend: the three record stores (users, inventory,     *)
(* preferences) and the HTTP handlers of routers/users.py,                 *)
(* routers/inventory.py and routers/preferences.py.                        *)
(*                                                                         *)
(* Conventions.  A Python str is a sequence of one-character strings.  An  *)
(* Optional value is a sequence of length at most one: None is << >> and   *)
(* the value x is <<x>> (Some(x)).  A table is a function from primary key *)
(* to row.  A float cost is an integer number of thousandths.              *)
(***************************************************************************)
EXTENDS Integers, Sequences, FiniteSets, TLC

VARIABLES
    inventory_items,   \* inventory.db: item_id -> row
    users,             \* users.db: user_id -> row
    user_preferences,  \* preferences.db: username -> row
    clock,             \* the latest reading of datetime.utcnow()
    request,           \* the request handled last
    response,          \* the answer to it
    repeated,          \* whether the request before it was the same request
    posted,            \* per part number: the sum of the quantities posted
                       \* since the part number had no row, while no PUT
                       \* or DELETE came in between
    written,           \* per preference key: the blob set since the last delete
    sessions           \* per worker: the request it has begun and not yet
                       \* answered, with the rows its session has loaded

vars == <<inventory_items, users, user_preferences, clock, request, response,
          repeated, posted, written, sessions>>

-----------------------------------------------------------------------------
(* Bounds of the model *)

MaxClock == 1
MaxRows == 2
MaxId == 2
MaxQuantity == 2
MaxText == 2

-----------------------------------------------------------------------------
(* Python values *)

None == << >>
Some(x) == <<x>>
Val(o) == o[1]

\* bool(x) of an Optional[str]: None and "" are falsy
Truthy(o) == o # None /\ Val(o) # << >>

Max(S) == CHOOSE x \in S : \A y \in S : y <= x

Min(S) == CHOOSE x \in S : \A y \in S : x <= y

-----------------------------------------------------------------------------
(* str.strip, str.lower, the in operator, string formatting *)

Whitespace == {" ", "\t", "\n", "\r", "\f"}

UpperCase == <<"A","B","C","D","E","F","G","H","I","J","K","L","M",
               "N","O","P","Q","R","S","T","U","V","W","X","Y","Z">>

LowerCase == <<"a","b","c","d","e","f","g","h","i","j","k","l","m",
               "n","o","p","q","r","s","t","u","v","w","x","y","z">>

LowerChar(c) ==
    IF \E i \in 1..Len(UpperCase) : UpperCase[i] = c
    THEN LowerCase[CHOOSE i \in 1..Len(UpperCase) : UpperCase[i] = c]
    ELSE c

Lower(s) == [i \in 1..Len(s) |-> LowerChar(s[i])]

Strip(s) ==
    LET solid == {i \in 1..Len(s) : s[i] \notin Whitespace}
    IN  IF solid = {} THEN << >> ELSE SubSeq(s, Min(solid), Max(solid))

\* n in e
Contains(e, n) ==
    \E i \in 0..(Len(e) - Len(n)) : SubSeq(e, i + 1, i + Len(n)) = n

\* a join with a bare comma
CommaJoinNoSpace(a, b) == a \o <<",">> \o b

\* f"{a}, {b}"
CommaJoin(a, b) == a \o <<",", " ">> \o b

-----------------------------------------------------------------------------
(* JSON text: a sequence of tokens *)

\* json.dumps of a list of strings
JsonDumpsList(l) ==
    IF l = << >> THEN <<"[", "]">>
    ELSE <<"[">> \o [i \in 1..(2 * Len(l) - 1) |->
                        IF i % 2 = 1 THEN l[(i + 1) \div 2] ELSE ","]
                 \o <<"]">>

\* json.dumps of a dict, a sequence of <<key, value>> pairs
JsonDumpsDict(d) ==
    IF d = << >> THEN <<"{", "}">>
    ELSE <<"{">> \o [i \in 1..(4 * Len(d) - 1) |->
                        CASE i % 4 = 1 -> d[(i + 3) \div 4][1]
                          [] i % 4 = 2 -> ":"
                          [] i % 4 = 3 -> d[(i + 3) \div 4][2]
                          [] OTHER -> ","]
                 \o <<"}">>

\* whether json.loads accepts the text
JsonValid(text) ==
    /\ Len(text) >= 2
    /\ \/ text[1] = "[" /\ text[Len(text)] = "]"
       \/ text[1] = "{" /\ text[Len(text)] = "}"

\* json.loads of an accepted text
JsonLoads(text) ==
    LET inner == SubSeq(text, 2, Len(text) - 1)
    IN  IF text[1] = "["
        THEN [i \in 1..((Len(inner) + 1) \div 2) |-> inner[2 * i - 1]]
        ELSE [i \in 1..((Len(inner) + 1) \div 4) |->
                 <<inner[4 * i - 3], inner[4 * i - 1]>>]

-----------------------------------------------------------------------------
(* models.py: the columns of inventory_items *)

FreeTextFields ==
    {"description", "category", "location", "subteam", "vendor", "item_type",
     "systems", "case_code_in", "size", "link", "company", "notes"}

InventoryItemFields ==
    {"part_number", "quantity", "cost", "created_by", "last_updated_by",
     "created_at", "updated_at"} \cup FreeTextFields

\* schemas.py: the fields of the POST payload and the default of each
InventoryItemCreateFields ==
    {"part_number", "quantity", "cost", "created_by"} \cup FreeTextFields

InventoryItemCreate(body) ==
    [f \in InventoryItemCreateFields |->
        IF f \in DOMAIN body THEN body[f]
        ELSE IF f = "cost" THEN Some(0) ELSE None]

\* schemas.py: the fields of the PUT payload
InventoryItemUpdateFields ==
    {"part_number", "quantity", "cost", "last_updated_by"} \cup FreeTextFields

-----------------------------------------------------------------------------
(* routers/inventory.py *)

\* a merge_field that compares without lower()
merge_field_case_sensitive(existing_value, new_value) ==
    IF new_value = None \/ Val(new_value) = << >>
          \/ Strip(Val(new_value)) = << >>
    THEN existing_value
    ELSE LET new == Strip(Val(new_value))
         IN  IF existing_value = None \/ Val(existing_value) = << >>
                   \/ Strip(Val(existing_value)) = << >>
             THEN Some(new)
             ELSE LET existing == Strip(Val(existing_value))
                  IN  IF ~Contains(existing, new)
                      THEN Some(CommaJoin(existing, new))
                      ELSE Some(existing)

\* a merge_field that does not strip the new value
merge_field_unstripped(existing_value, new_value) ==
    IF new_value = None \/ Val(new_value) = << >>
          \/ Strip(Val(new_value)) = << >>
    THEN existing_value
    ELSE LET new == Val(new_value)
         IN  IF existing_value = None \/ Val(existing_value) = << >>
                   \/ Strip(Val(existing_value)) = << >>
             THEN Some(new)
             ELSE LET existing == Strip(Val(existing_value))
                  IN  IF ~Contains(Lower(existing), Lower(new))
                      THEN Some(CommaJoin(existing, new))
                      ELSE Some(existing)

\* a merge_field that appends whether or not the value is contained
merge_field_appending(existing_value, new_value) ==
    IF new_value = None \/ Val(new_value) = << >>
          \/ Strip(Val(new_value)) = << >>
    THEN existing_value
    ELSE LET new == Strip(Val(new_value))
         IN  IF existing_value = None \/ Val(existing_value) = << >>
                   \/ Strip(Val(existing_value)) = << >>
             THEN Some(new)
             ELSE Some(CommaJoin(Strip(Val(existing_value)), new))

merge_field(existing_value, new_value) ==
    IF new_value = None \/ Val(new_value) = << >>
          \/ Strip(Val(new_value)) = << >>
    THEN existing_value
    ELSE LET new == Strip(Val(new_value))
         IN  IF existing_value = None \/ Val(existing_value) = << >>
                   \/ Strip(Val(existing_value)) = << >>
             THEN Some(new)
             ELSE LET existing == Strip(Val(existing_value))
                  IN  IF ~Contains(Lower(existing), Lower(new))
                      THEN Some(CommaJoin(existing, new))
                      ELSE Some(existing)

\* the rows .filter(InventoryItem.part_number == part_number) selects
RowsWithPartNumber(part_number) ==
    {id \in DOMAIN inventory_items :
        inventory_items[id].part_number = Some(part_number)}

\* the rowid SQLite gives an inserted row of a table
NextRowId(table) == IF DOMAIN table = {} THEN 1 ELSE Max(DOMAIN table) + 1

\* db.add(row); db.commit()
Insert(table, row) ==
    [id \in DOMAIN table \cup {NextRowId(table)} |->
        IF id \in DOMAIN table THEN table[id] ELSE row]

\* a delete that empties the table
DeleteWholeTable(table, key) == << >>

\* db.delete(row); db.commit()
Delete(table, key) == [k \in DOMAIN table \ {key} |-> table[k]]

\* return {"success": True, "data": data}
OkData(data) == [status |-> 200, body |-> [success |-> TRUE, data |-> data]]

\* return {"success": True, "message": message}
OkMessage(message) ==
    [status |-> 200, body |-> [success |-> TRUE, message |-> message]]

\* raise HTTPException(status_code, detail), or an exception that FastAPI
\* answers with 500; the session is closed without a commit
Error(status_code, detail) ==
    [status |-> status_code, body |-> [detail |-> detail]]

\* a request: the method, the path (a route and its parameter) and the body
Request(method, route, parameter, body) ==
    [method |-> method, path |-> <<route, parameter>>, body |-> body]

\* whether a request is this one: the method and the route are compared
\* before the parameter and the body, whose shapes depend on them
Requested(req, method, route, parameter, body) ==
    /\ req.method = method
    /\ req.path[1] = route
    /\ req.path[2] = parameter
    /\ req.body = body

\* database.py, the functions that FastAPI calls for Depends(...)
Dependencies == {"get_users_db", "get_inventory_db", "get_preferences_db"}

\* the dependency in the signature of the handlers of a route
DependsOn(route) ==
    IF route \in {"/api/users", "/api/users/", "/api/users/login"}
    THEN "get_users_db"
    ELSE IF route \in {"/api/inventory", "/api/inventory/"}
    THEN "get_inventory_db"
    ELSE "get_preferences_db"

\* the workers whose request holds the session that this dependency yielded,
\* its handler not yet called
Yielded(dependency) ==
    {worker \in DOMAIN sessions :
        /\ sessions[worker].handler = dependency
        /\ sessions[worker].position = "yield"}

\* a dependency that closes the session only when the handler returned
\* (yield db followed by db.close(), with no try ... finally)
get_db_close_after_return(worker) ==
    /\ worker \in DOMAIN sessions
    /\ sessions[worker].handler \in Dependencies
    /\ sessions[worker].position = "finally"
    /\ sessions[worker].outcome = "returned"
    /\ sessions' = [sessions EXCEPT ![worker].position = "closed"]
    /\ UNCHANGED <<inventory_items, users, user_preferences, clock, request,
                   response, repeated, posted, written>>

\* get_users_db, get_inventory_db, get_preferences_db, lines 45, 53 and 61:
\* db = ...Session(), and the yield that hands it to the handler
get_db_yield(worker, dependency) ==
    /\ worker \in DOMAIN sessions =>
          /\ sessions[worker].handler \in Dependencies
          /\ sessions[worker].position = "closed"
    /\ sessions' = [w \in DOMAIN sessions \cup {worker} |->
                       IF w = worker
                       THEN [handler |-> dependency, position |-> "yield",
                             outcome |-> ""]
                       ELSE sessions[w]]
    /\ UNCHANGED <<inventory_items, users, user_preferences, clock, request,
                   response, repeated, posted, written>>

\* the handler of the request gives the control back to the dependency, by
\* its return or by the exception it raised: the finally block is entered
get_db_finally(worker) ==
    sessions' = [sessions EXCEPT
                    ![worker].position = "finally",
                    ![worker].outcome =
                        IF response'.status = 200 THEN "returned"
                        ELSE "raised"]

\* get_users_db, get_inventory_db, get_preferences_db, lines 48-49, 56-57
\* and 64-65: finally: db.close()
get_db_close(worker) ==
    /\ worker \in DOMAIN sessions
    /\ sessions[worker].handler \in Dependencies
    /\ sessions[worker].position = "finally"
    /\ sessions' = [sessions EXCEPT ![worker].position = "closed"]
    /\ UNCHANGED <<inventory_items, users, user_preferences, clock, request,
                   response, repeated, posted, written>>

\* a handler takes a request and answers it before any other request is
\* taken.  Where no session that its dependency yielded is waiting, the
\* session is opened and closed within the step; where one is, the step goes
\* on with get_db_finally
Handle(method, route, parameter, body) ==
    /\ request' = Request(method, route, parameter, body)
    /\ repeated' = Requested(request, method, route, parameter, body)
    /\ IF Yielded(DependsOn(route)) = {} THEN sessions' = sessions ELSE TRUE

\* whether the last request was answered with this message
Answered(message) ==
    /\ response.status = 200
    /\ \/ "message" \in DOMAIN response.body
          /\ response.body.message = message
       \/ "data" \in DOMAIN response.body
          /\ "message" \in DOMAIN response.body.data
          /\ response.body.data.message = message

\* a merge that stores the posted quantity in place of the sum
MergedQuantityOverwritten(existing_item, item_data) ==
    IF item_data.quantity # 0 THEN Some(item_data.quantity)
    ELSE existing_item.quantity

\* create_inventory_item, lines 39-40: accumulate quantity
MergedQuantity(existing_item, item_data) ==
    IF item_data.quantity # 0
    THEN Some(Val(existing_item.quantity) + item_data.quantity)
    ELSE existing_item.quantity

\* create_inventory_item, lines 57-80: the free-text field f after the merge
MergedText(existing_item, item_data, f) ==
    IF Truthy(item_data[f])
    THEN merge_field(existing_item[f], item_data[f])
    ELSE existing_item[f]

\* create_inventory_item, lines 83-84: update cost if provided
MergedCost(existing_item, item_data) ==
    IF item_data.cost # None THEN item_data.cost ELSE existing_item.cost

\* create_inventory_item, lines 38-90: the row after the merge
MergedItem(existing_item, item_data, now) ==
    [f \in InventoryItemFields |->
        CASE f = "quantity" -> MergedQuantity(existing_item, item_data)
          [] f \in FreeTextFields -> MergedText(existing_item, item_data, f)
          [] f = "cost" -> MergedCost(existing_item, item_data)
          [] f = "last_updated_by" ->
                 IF Truthy(item_data.created_by) THEN item_data.created_by
                 ELSE existing_item.last_updated_by
          [] f = "updated_at" -> Some(now)
          [] OTHER -> existing_item[f]]

\* a creation whose updated_at default is read before its created_at default
NewItemStampedBackwards(item_data, now1, now2) ==
    [f \in InventoryItemFields |->
        CASE f = "part_number" -> Some(item_data.part_number)
          [] f = "quantity" -> Some(item_data.quantity)
          [] f = "last_updated_by" -> item_data.created_by
          [] f = "created_at" -> Some(now2)
          [] f = "updated_at" -> Some(now1)
          [] OTHER -> item_data[f]]

\* a creation that trims the free text it stores
NewItemTrimmed(item_data, now1, now2) ==
    [f \in InventoryItemFields |->
        CASE f = "part_number" -> Some(item_data.part_number)
          [] f = "quantity" -> Some(item_data.quantity)
          [] f = "last_updated_by" -> item_data.created_by
          [] f = "created_at" -> Some(now1)
          [] f = "updated_at" -> Some(now2)
          [] f \in FreeTextFields ->
                 IF item_data[f] = None THEN None
                 ELSE Some(Strip(Val(item_data[f])))
          [] OTHER -> item_data[f]]

\* create_inventory_item, lines 102-120: the row of a new item, with the
\* column defaults of created_at and updated_at
NewItem(item_data, now1, now2) ==
    [f \in InventoryItemFields |->
        CASE f = "part_number" -> Some(item_data.part_number)
          [] f = "quantity" -> Some(item_data.quantity)
          [] f = "last_updated_by" -> item_data.created_by
          [] f = "created_at" -> Some(now1)
          [] f = "updated_at" -> Some(now2)
          [] OTHER -> item_data[f]]

Abs(n) == IF n < 0 THEN -n ELSE n

\* POST /api/inventory with a stored part number
create_inventory_item_existing(body, now) ==
    LET item_data == InventoryItemCreate(body)
        part_number == item_data.part_number
    IN  /\ clock <= now /\ now <= MaxClock
        /\ Handle("POST", "/api/inventory", None, body)
        /\ \E item_id \in RowsWithPartNumber(part_number) :
             LET existing_item == inventory_items[item_id]
                 merged == MergedItem(existing_item, item_data, now)
             IN  IF item_data.quantity # 0 /\ existing_item.quantity = None
                 THEN /\ response' = Error(500, "TypeError")
                      /\ UNCHANGED <<inventory_items, clock, posted>>
                 ELSE /\ merged.quantity # None =>
                             Abs(Val(merged.quantity)) <= MaxQuantity
                      /\ inventory_items' =
                             [inventory_items EXCEPT ![item_id] = merged]
                      /\ clock' = now
                      /\ posted' =
                             IF part_number \in DOMAIN posted
                             THEN [posted EXCEPT ![part_number] =
                                      @ + item_data.quantity]
                             ELSE posted
                      /\ response' =
                             OkData([itemId |-> item_id,
                                     message |->
                                         <<"Updated existing item ",
                                           part_number, ", new quantity: ",
                                           merged.quantity>>])
        /\ UNCHANGED <<users, user_preferences, written>>

\* POST /api/inventory with a part number that is not stored
create_inventory_item_new(body, now1, now2) ==
    LET item_data == InventoryItemCreate(body)
        part_number == item_data.part_number
        db_item == NewItem(item_data, now1, now2)
    IN  /\ clock <= now1 /\ now1 <= now2 /\ now2 <= MaxClock
        /\ Handle("POST", "/api/inventory", None, body)
        /\ RowsWithPartNumber(part_number) = {}
        /\ Cardinality(DOMAIN inventory_items) < MaxRows
        /\ NextRowId(inventory_items) <= MaxId
        /\ Abs(item_data.quantity) <= MaxQuantity
        /\ inventory_items' = Insert(inventory_items, db_item)
        /\ clock' = now2
        /\ posted' = [pn \in DOMAIN posted \cup {part_number} |->
                         IF pn = part_number THEN item_data.quantity
                         ELSE posted[pn]]
        /\ response' =
               OkData([itemId |-> NextRowId(inventory_items),
                       message |->
                           <<"Inventory item created successfully">>])
        /\ UNCHANGED <<users, user_preferences, written>>

\* a PUT payload model that keeps the keys that are no field of it
InventoryItemUpdateExtraAllowed(body) ==
    [f \in DOMAIN body \cap InventoryItemFields |-> body[f]]

\* schemas.py: item_data.dict(exclude_unset=True) of a PUT payload; keys that
\* are no field of InventoryItemUpdate are ignored
InventoryItemUpdate(body) ==
    [f \in DOMAIN body \cap InventoryItemUpdateFields |-> body[f]]

\* an update that also stores the default None of every field left out
UpdatedItemUnsetIncluded(item, item_data, now) ==
    [f \in InventoryItemFields |->
        IF f \in DOMAIN item_data THEN item_data[f]
        ELSE IF f \in InventoryItemUpdateFields THEN None
        ELSE IF f = "updated_at" THEN Some(now)
        ELSE item[f]]

\* update_inventory_item, lines 142-146: the row after the setattr loop
UpdatedItem(item, item_data, now) ==
    [f \in InventoryItemFields |->
        IF f \in DOMAIN item_data THEN item_data[f]
        ELSE IF f = "updated_at" THEN Some(now)
        ELSE item[f]]

\* PUT /api/inventory/{item_id}
update_inventory_item(item_id, body, now) ==
    LET item_data == InventoryItemUpdate(body)
    IN  /\ clock <= now /\ now <= MaxClock
        /\ Handle("PUT", "/api/inventory/", Some(item_id), body)
        /\ IF item_id \notin DOMAIN inventory_items
           THEN /\ response' = Error(404, "Inventory item not found")
                /\ UNCHANGED <<inventory_items, clock, posted>>
           ELSE LET item == inventory_items[item_id]
                    updated == UpdatedItem(item, item_data, now)
                IN  IF updated.part_number = None
                    THEN \* part_number is nullable=False: the commit fails
                         /\ response' = Error(500, "IntegrityError")
                         /\ UNCHANGED <<inventory_items, clock, posted>>
                    ELSE /\ updated.quantity # None =>
                                Abs(Val(updated.quantity)) <= MaxQuantity
                         /\ inventory_items' =
                                [inventory_items EXCEPT ![item_id] = updated]
                         /\ clock' = now
                         /\ posted' = << >>
                         /\ response' =
                                OkMessage(<<"Inventory item updated successfully">>)
        /\ UNCHANGED <<users, user_preferences, written>>

\* DELETE /api/inventory/{item_id}
delete_inventory_item(item_id) ==
    /\ Handle("DELETE", "/api/inventory/", Some(item_id), None)
    /\ IF item_id \notin DOMAIN inventory_items
       THEN /\ response' = Error(404, "Inventory item not found")
            /\ UNCHANGED <<inventory_items, posted>>
       ELSE /\ inventory_items' = Delete(inventory_items, item_id)
            /\ posted' = << >>
            /\ response' =
                   OkMessage(<<"Inventory item deleted successfully">>)
    /\ UNCHANGED <<users, user_preferences, clock, written>>

\* GET /api/inventory: the rows in rowid order
RECURSIVE Listing(_)
Listing(table) ==
    IF DOMAIN table = {} THEN << >>
    ELSE LET k == Max(DOMAIN table)
         IN  Append(Listing([j \in DOMAIN table \ {k} |-> table[j]]),
                    <<k, table[k]>>)

get_all_inventory == OkData(Listing(inventory_items))

\* sum(...) over the rows of a table: f maps each primary key to a number
RECURSIVE Sum(_)
Sum(f) ==
    IF DOMAIN f = {} THEN 0
    ELSE LET k == CHOOSE k \in DOMAIN f : TRUE
         IN  f[k] + Sum([j \in DOMAIN f \ {k} |-> f[j]])

Uncategorized ==
    <<"U", "n", "c", "a", "t", "e", "g", "o", "r", "i", "z", "e", "d">>

Unassigned == <<"U", "n", "a", "s", "s", "i", "g", "n", "e", "d">>

\* a grouping that leaves out the items whose column is empty
GroupedQuantityOfFilled(column, fallback) ==
    LET filled == {id \in DOMAIN inventory_items :
                      Truthy(inventory_items[id][column])}
    IN  [g \in {Val(inventory_items[id][column]) : id \in filled} |->
            Sum([id \in {i \in filled :
                            Val(inventory_items[i][column]) = g} |->
                    Val(inventory_items[id].quantity)])]

\* get_inventory_statistics, lines 171-185: item[column] or fallback, and
\* the quantities of the items summed per group
GroupedQuantity(column, fallback) ==
    LET group(id) ==
            IF Truthy(inventory_items[id][column])
            THEN Val(inventory_items[id][column]) ELSE fallback
    IN  [g \in {group(id) : id \in DOMAIN inventory_items} |->
            Sum([id \in {i \in DOMAIN inventory_items : group(i) = g} |->
                    Val(inventory_items[id].quantity)])]

\* GET /api/inventory/statistics.  sum() and += raise TypeError on a
\* quantity that is None.
get_inventory_statistics ==
    IF \E id \in DOMAIN inventory_items : inventory_items[id].quantity = None
    THEN Error(500, "TypeError")
    ELSE OkData(
             [totalItems |-> Cardinality(DOMAIN inventory_items),
              totalQuantity |->
                  Sum([id \in DOMAIN inventory_items |->
                          Val(inventory_items[id].quantity)]),
              categories |-> GroupedQuantity("category", Uncategorized),
              subteams |-> GroupedQuantity("subteam", Unassigned),
              uniquePartNumbers |->
                  Cardinality({inventory_items[id].part_number :
                                  id \in DOMAIN inventory_items})])

-----------------------------------------------------------------------------
(* main_backup.py: the statistics of the earlier single-file application   *)

\* round(total_value, 2) of a number of thousandths: the nearest hundredth;
\* halfway between two hundredths the binary value of the float decides
Round2(total_value) ==
    LET down == total_value - (total_value % 10)
    IN  IF total_value % 10 < 5 THEN {down}
        ELSE IF total_value % 10 > 5 THEN {down + 10}
        ELSE {down, down + 10}

\* get_inventory_stats, line 366: sum((cost or 0) * (quantity or 0))
TotalValue ==
    Sum([id \in DOMAIN inventory_items |->
            LET item == inventory_items[id]
            IN  (IF item.cost = None THEN 0 ELSE Val(item.cost))
                    * (IF item.quantity = None THEN 0
                       ELSE Val(item.quantity))])

\* GET /api/inventory/stats: the answers it can give.  Lines 362-364 hand
\* with_entities a list of rows, which SQLAlchemy refuses as a column
\* expression; the data are what a library that accepts the call leads to.
get_inventory_stats ==
    {Error(500, "ArgumentError")}
        \cup {OkData([totalItems |-> Cardinality(DOMAIN inventory_items),
                      totalQuantity |->
                          Sum([id \in DOMAIN inventory_items |->
                                  IF inventory_items[id].quantity = None
                                  THEN 0
                                  ELSE Val(inventory_items[id].quantity)]),
                      totalValue |-> total_value]) :
                 total_value \in Round2(TotalValue)}

-----------------------------------------------------------------------------
(* main_backup.py: POST /api/admin/clear-data.  The preferences store it    *)
(* clears is the one in preferences.db.                                     *)

\* an order that clears the inventory before the users
ClearOrderInventoryFirst == <<"inventory", "users", "preferences">>

\* clear_all_data, lines 420-427: the stores in the order of the statements
\* that delete their rows and commit
ClearOrder == <<"users", "inventory", "preferences">>

\* the stores a clear-data request has cleared and committed so far
Committed(worker) ==
    IF worker \in DOMAIN sessions THEN sessions[worker].committed ELSE << >>

\* a worker takes the clear-data request, or goes on with the one it has
ClearingData(worker) ==
    /\ worker \in DOMAIN sessions =>
          sessions[worker].handler = "clear_all_data"
    /\ request' = Request("POST", "/api/admin/clear-data", None, None)
    /\ repeated' = FALSE

\* clear_all_data, one query(...).delete() with its commit(); after the third
\* the request is answered and the sessions are closed
clear_all_data_commit(worker) ==
    LET store == ClearOrder[Len(Committed(worker)) + 1]
        committed == Append(Committed(worker), store)
    IN  /\ ClearingData(worker)
        /\ users' = IF store = "users" THEN << >> ELSE users
        /\ inventory_items' =
               IF store = "inventory" THEN << >> ELSE inventory_items
        /\ posted' = IF store = "inventory" THEN << >> ELSE posted
        /\ user_preferences' =
               IF store = "preferences" THEN << >> ELSE user_preferences
        /\ written' = IF store = "preferences" THEN << >> ELSE written
        /\ IF Len(committed) = Len(ClearOrder)
           THEN /\ sessions' = Delete(sessions, worker)
                /\ response' =
                       OkMessage(<<"All data cleared successfully">>)
           ELSE /\ sessions' =
                       [w \in DOMAIN sessions \cup {worker} |->
                           IF w = worker
                           THEN [handler |-> "clear_all_data",
                                 committed |-> committed]
                           ELSE sessions[w]]
                /\ UNCHANGED response
        /\ UNCHANGED clock

\* clear_all_data, the next delete() or commit() raises: the finally block
\* closes the sessions, what is committed stays and the answer is 500
clear_all_data_raises(worker) ==
    /\ ClearingData(worker)
    /\ sessions' = Delete(sessions, worker)
    /\ response' = Error(500, "OperationalError")
    /\ UNCHANGED <<inventory_items, users, user_preferences, clock, posted,
                   written>>

-----------------------------------------------------------------------------
(* utils.py *)

parse_devices(devices_json) ==
    IF devices_json # None /\ Val(devices_json) # << >>
    THEN IF JsonValid(Val(devices_json)) THEN JsonLoads(Val(devices_json))
         ELSE << >>
    ELSE << >>

\* an add_device_to_user that moves a device seen again to the end
add_device_moved_to_end(user_devices, new_device) ==
    IF new_device # ""
    THEN Append(SelectSeq(user_devices, LAMBDA d : d # new_device),
                new_device)
    ELSE user_devices

\* an add_device_to_user without the membership test
add_device_always(user_devices, new_device) ==
    IF new_device # "" THEN Append(user_devices, new_device)
    ELSE user_devices

add_device_to_user(user_devices, new_device) ==
    IF new_device # "" /\ \A i \in 1..Len(user_devices) :
                             user_devices[i] # new_device
    THEN Append(user_devices, new_device)
    ELSE user_devices

-----------------------------------------------------------------------------
(* schemas.py: the payload of POST /api/users and the default of each field *)

UserCreateFields == {"username", "subteam", "category", "device"}

UserCreate(body) ==
    [f \in UserCreateFields |->
        IF f \in DOMAIN body THEN body[f]
        ELSE IF f = "category" THEN Some("member") ELSE None]

-----------------------------------------------------------------------------
(* routers/users.py *)

\* a username filter that selects every row
RowsWithUsernameAny(username) == DOMAIN users

\* a username filter that selects no row
RowsWithUsernameNever(username) == {}

\* the rows .filter(User.username == username) selects
RowsWithUsername(username) ==
    {id \in DOMAIN users : users[id].username = Some(username)}

\* POST /api/users
create_user(body, now1, now2) ==
    LET user_data == UserCreate(body)
        initial_devices ==
            IF user_data.device # None /\ Val(user_data.device) # ""
            THEN <<Val(user_data.device)>> ELSE << >>
        db_user == [username |-> Some(user_data.username),
                    category |-> user_data.category,
                    subteam |-> Some(user_data.subteam),
                    devices |-> Some(JsonDumpsList(initial_devices)),
                    last_login |-> Some(now1),
                    created_at |-> Some(now2)]
    IN  /\ clock <= now1 /\ now1 <= now2 /\ now2 <= MaxClock
        /\ Handle("POST", "/api/users", None, body)
        /\ IF RowsWithUsername(user_data.username) # {}
           THEN /\ response' = Error(409, "Username already exists")
                /\ UNCHANGED <<users, clock>>
           ELSE /\ Cardinality(DOMAIN users) < MaxRows
                /\ NextRowId(users) <= MaxId
                /\ users' = Insert(users, db_user)
                /\ clock' = now2
                /\ response' =
                       OkData([userId |-> NextRowId(users),
                               message |-> <<"User created successfully">>])
        /\ UNCHANGED <<inventory_items, user_preferences, posted, written>>

\* DELETE /api/users/{user_id}
delete_user(user_id) ==
    /\ Handle("DELETE", "/api/users/", Some(user_id), None)
    /\ IF user_id \notin DOMAIN users
       THEN /\ response' = Error(404, "User not found")
            /\ UNCHANGED users
       ELSE /\ users' = Delete(users, user_id)
            /\ response' = OkMessage(<<"User deleted successfully">>)
    /\ UNCHANGED <<inventory_items, user_preferences, clock, posted, written>>

\* POST /api/users/login
login_user(login_data, now) ==
    /\ clock <= now /\ now <= MaxClock
    /\ Handle("POST", "/api/users/login", None, login_data)
    /\ IF RowsWithUsername(login_data.username) = {}
       THEN /\ response' = Error(404, "User not found")
            /\ UNCHANGED <<users, clock>>
       ELSE \E user_id \in RowsWithUsername(login_data.username) :
               LET user == users[user_id]
                   devices == add_device_to_user(parse_devices(user.devices),
                                                 login_data.device)
               IN  /\ users' = [users EXCEPT
                                   ![user_id].devices =
                                       Some(JsonDumpsList(devices)),
                                   ![user_id].last_login = Some(now)]
                   /\ clock' = now
                   /\ response' = OkData([user_id |-> user_id,
                                          username |-> user.username,
                                          category |-> user.category,
                                          subteam |-> user.subteam])
    /\ UNCHANGED <<inventory_items, user_preferences, posted, written>>

\* a login that reads the device list again when it commits
LoggedInDevicesReadAgain(session) ==
    JsonDumpsList(add_device_to_user(
        parse_devices(users[session.user_id].devices),
        session.login_data.device))

\* login_user, lines 82-84: the text assigned to user.devices, computed from
\* the row the session loaded
LoggedInDevices(session) ==
    JsonDumpsList(add_device_to_user(parse_devices(session.user.devices),
                                     session.login_data.device))

\* a commit that writes every column of the loaded row
CommittedRowWhole(session, now) ==
    [session.user EXCEPT !.devices = Some(LoggedInDevices(session)),
                         !.last_login = Some(now)]

\* login_user, lines 84-86: the row after the UPDATE that db.commit() sends,
\* which sets the columns whose value differs from the loaded one
CommittedRow(session, now) ==
    [users[session.user_id] EXCEPT
        !.devices = IF Some(LoggedInDevices(session)) = session.user.devices
                    THEN @ ELSE Some(LoggedInDevices(session)),
        !.last_login = Some(now)]

\* POST /api/users/login taken by a worker process, line 77: the session
\* loads the row; no lock is held on it
login_user_query(worker, login_data) ==
    /\ worker \notin DOMAIN sessions
    /\ request' = Request("POST", "/api/users/login", None, login_data)
    /\ repeated' = FALSE
    /\ IF RowsWithUsername(login_data.username) = {}
       THEN /\ response' = Error(404, "User not found")
            /\ UNCHANGED sessions
       ELSE \E user_id \in RowsWithUsername(login_data.username) :
               /\ sessions' =
                      [w \in DOMAIN sessions \cup {worker} |->
                          IF w = worker
                          THEN [handler |-> "login_user",
                                login_data |-> login_data,
                                user_id |-> user_id,
                                user |-> users[user_id]]
                          ELSE sessions[w]]
               /\ UNCHANGED response
    /\ UNCHANGED <<inventory_items, users, user_preferences, clock, posted,
                   written>>

\* the same request, lines 82-96: db.commit() writes the columns whose value
\* differs from the loaded one, to the row with the loaded primary key; it
\* raises StaleDataError when that row is gone
login_user_commit(worker, now) ==
    /\ worker \in DOMAIN sessions
    /\ sessions[worker].handler = "login_user"
    /\ clock <= now /\ now <= MaxClock
    /\ LET session == sessions[worker]
           user == session.user
           devices == Some(LoggedInDevices(session))
       IN  IF session.user_id \notin DOMAIN users
           THEN /\ response' = Error(500, "StaleDataError")
                /\ UNCHANGED <<users, clock>>
           ELSE /\ users' = [users EXCEPT ![session.user_id] =
                                              CommittedRow(session, now)]
                /\ clock' = now
                /\ response' = OkData([user_id |-> session.user_id,
                                       username |-> user.username,
                                       category |-> user.category,
                                       subteam |-> user.subteam])
    /\ sessions' = Delete(sessions, worker)
    /\ UNCHANGED <<inventory_items, user_preferences, request, repeated,
                   posted, written>>

\* GET /api/users: the rows in rowid order, each with its device list
get_all_users ==
    LET rows == Listing(users)
    IN  OkData([i \in 1..Len(rows) |->
                   [user_id |-> rows[i][1],
                    username |-> rows[i][2].username,
                    category |-> rows[i][2].category,
                    subteam |-> rows[i][2].subteam,
                    devices |-> parse_devices(rows[i][2].devices),
                    last_login |-> rows[i][2].last_login,
                    created_at |-> rows[i][2].created_at]])

-----------------------------------------------------------------------------
(* routers/preferences.py.  A preference blob is a dict: a sequence of      *)
(* <<key, value>> pairs.                                                    *)

\* GET /api/preferences/user/{username}
get_user_preferences(username) ==
    IF username \notin DOMAIN user_preferences
    THEN OkData([username |-> username, preferences |-> << >>])
    ELSE LET preference == user_preferences[username]
             preferences_data ==
                 IF JsonValid(preference.preferences)
                 THEN JsonLoads(preference.preferences) ELSE << >>
         IN  OkData([username |-> username,
                     preferences |-> preferences_data,
                     updated_at |-> preference.updated_at])

\* a device route that reads a namespace of its own, which holds nothing
get_device_preferences_own_namespace(device_id) ==
    OkData([username |-> device_id, preferences |-> << >>])

\* GET /api/preferences/{device_id}
get_device_preferences(device_id) == get_user_preferences(device_id)

\* a write that merges the incoming blob into the stored one
UpsertPreferenceMerged(username, preferences_json, now) ==
    [k \in DOMAIN user_preferences \cup {username} |->
        IF k # username THEN user_preferences[k]
        ELSE IF username \in DOMAIN user_preferences
             THEN LET stored ==
                          JsonLoads(user_preferences[username].preferences)
                      incoming == JsonLoads(preferences_json)
                  IN  [preferences |->
                           JsonDumpsDict(
                               [i \in 1..(Len(stored) + Len(incoming)) |->
                                   IF i <= Len(stored) THEN stored[i]
                                   ELSE incoming[i - Len(stored)]]),
                       updated_at |-> Some(now)]
             ELSE [preferences |-> preferences_json, updated_at |-> Some(now)]]

\* update_user_preferences, lines 66-77: the table after the write; the
\* onupdate of updated_at fires when the stored text changes
UpsertPreference(username, preferences_json, now) ==
    [k \in DOMAIN user_preferences \cup {username} |->
        IF k # username THEN user_preferences[k]
        ELSE IF username \in DOMAIN user_preferences
                  /\ user_preferences[username].preferences = preferences_json
             THEN user_preferences[username]
             ELSE [preferences |-> preferences_json, updated_at |-> Some(now)]]

\* POST /api/preferences/user/{username} and, with the device id as the
\* username, PUT /api/preferences/{device_id}
update_preferences(method, route, username, preference_data, now) ==
    LET preferences_json == JsonDumpsDict(preference_data.preferences)
    IN  /\ clock <= now /\ now <= MaxClock
        /\ username \notin DOMAIN user_preferences =>
              Cardinality(DOMAIN user_preferences) < MaxRows
        /\ Handle(method, route, Some(username), preference_data)
        /\ user_preferences' =
               UpsertPreference(username, preferences_json, now)
        /\ clock' = now
        /\ written' = [k \in DOMAIN written \cup {username} |->
                          IF k = username THEN preference_data.preferences
                          ELSE written[k]]
        /\ response' = OkMessage(<<"Preferences updated for user ", username>>)
        /\ UNCHANGED <<inventory_items, users, posted>>

update_user_preferences(username, preference_data, now) ==
    update_preferences("POST", "/api/preferences/user/", username,
                       preference_data, now)

update_device_preferences(device_id, preference_data, now) ==
    update_preferences("PUT", "/api/preferences/", device_id,
                       preference_data, now)

\* DELETE /api/preferences/user/{username} and, with the device id as the
\* username, DELETE /api/preferences/{device_id}
delete_preferences(route, username) ==
    /\ Handle("DELETE", route, Some(username), None)
    /\ IF username \notin DOMAIN user_preferences
       THEN /\ response' = Error(404, "User preferences not found")
            /\ UNCHANGED <<user_preferences, written>>
       ELSE /\ user_preferences' = Delete(user_preferences, username)
            /\ written' = Delete(written, username)
            /\ response' =
                   OkMessage(<<"Preferences deleted for user ", username>>)
    /\ UNCHANGED <<inventory_items, users, clock, posted>>

delete_user_preferences(username) ==
    delete_preferences("/api/preferences/user/", username)

delete_device_preferences(device_id) ==
    delete_preferences("/api/preferences/", device_id)

\* GET /api/preferences/users: the stored keys
get_all_user_preferences ==
    {get_user_preferences(username).body.data :
        username \in DOMAIN user_preferences}

-----------------------------------------------------------------------------
(* The state after construction: create_tables() on empty database files *)

Init ==
    /\ inventory_items = << >>
    /\ users = << >>
    /\ user_preferences = << >>
    /\ clock = 0
    /\ request = Request("", "", None, None)
    /\ repeated = FALSE
    /\ response = [status |-> 0, body |-> << >>]
    /\ posted = << >>
    /\ written = << >>
    /\ sessions = << >>

-----------------------------------------------------------------------------
(* Request payloads.  A key of a payload is left out (None), or given with   *)
(* a value (Some(v)), where v may be JSON null (None).                       *)

With(body, key, given) ==
    IF given = None THEN body
    ELSE [k \in DOMAIN body \cup {key} |->
             IF k = key THEN Val(given) ELSE body[k]]

Times == 0..MaxClock

ItemIds == 1..MaxId

PartNumbers == {<<"P", "1">>, <<"P", "2">>}

Quantities == {-1, 0, 2}

\* payloads of POST /api/inventory that differ in part number and quantity
InventoryPosts ==
    {[part_number |-> pn, quantity |-> q] :
        pn \in PartNumbers, q \in Quantities}

\* payloads of PUT /api/inventory/{item_id}
InventoryPuts ==
    {With(With(<< >>, "part_number", pn), "quantity", q) :
        pn \in {None, Some(Some(<<"P", "2">>))},
        q \in {None, Some(None), Some(Some(1))}}

-----------------------------------------------------------------------------
(* The inventory store alone *)

NextInventory ==
    \/ \E body \in InventoryPosts :
          create_inventory_item_existing(body, clock)
    \/ \E body \in InventoryPosts :
          create_inventory_item_new(body, clock, clock)
    \/ \E item_id \in ItemIds, body \in InventoryPuts :
          update_inventory_item(item_id, body, clock)
    \/ \E item_id \in ItemIds : delete_inventory_item(item_id)

SpecInventory == Init /\ [][NextInventory]_vars

-----------------------------------------------------------------------------
(* The inventory store alone, one part number posted again and again with   *)
(* payloads that differ in a free-text field or in the cost                 *)

TextsGiven ==
    {None, Some(None), Some(Some(<< >>)), Some(Some(<<" ">>)),
     Some(Some(<<"a">>)), Some(Some(<<"A">>)), Some(Some(<<" ", "a", " ">>)),
     Some(Some(<<"b">>))}

CostsGiven == {Some(None), Some(Some(5)), Some(Some(7))}

MergePosts ==
    LET base(q) == [part_number |-> <<"P", "1">>, quantity |-> q]
    IN  {With(base(q), "description", d) : q \in {0, 1}, d \in TextsGiven}
           \cup {With(base(1), "category", Some(Some(<<"b">>)))}
           \cup {With(base(1), "cost", c) : c \in CostsGiven}

\* the values merge_field is given: None and the texts of at most MaxText
\* characters
MergeTexts ==
    {None} \cup {Some(s) : s \in UNION {[1..k -> {" ", "a", "A", "b"}] :
                                           k \in 0..MaxText}}

NextMerge ==
    \/ \E body \in MergePosts : create_inventory_item_existing(body, clock)
    \/ \E body \in MergePosts : create_inventory_item_new(body, clock, clock)
    \/ \E item_id \in ItemIds : delete_inventory_item(item_id)

SpecMerge == Init /\ [][NextMerge]_vars

-----------------------------------------------------------------------------
(* The users store alone *)

UserIds == 1..MaxId

Usernames == {"ann", "bob"}

Devices == {"", "d1", "d2"}

UserPosts ==
    {With([username |-> u, subteam |-> "electrical"], "device", d) :
        u \in Usernames, d \in {None, Some(None), Some(Some("")),
                                Some(Some("d1"))}}

DeviceLogins == [username : Usernames, device : Devices]

Later == clock..MaxClock

NextUsers ==
    \/ \E body \in UserPosts, now \in Later : create_user(body, now, now)
    \/ \E login_data \in DeviceLogins, now \in Later :
          login_user(login_data, now)
    \/ \E user_id \in UserIds : delete_user(user_id)

SpecUsers == Init /\ [][NextUsers]_vars

-----------------------------------------------------------------------------
(* The preferences store alone *)

PreferenceKeys == {"ann", "d1"}

Blobs ==
    {<< >>, <<<<"theme", "dark">>>>, <<<<"lang", "en">>>>,
     <<<<"theme", "light">>, <<"lang", "en">>>>}

PreferenceUpdates == [device_id : {"d1"}, preferences : Blobs]

NextPreferences ==
    \/ \E k \in PreferenceKeys, data \in PreferenceUpdates, now \in Later :
          update_user_preferences(k, data, now)
    \/ \E k \in PreferenceKeys, data \in PreferenceUpdates, now \in Later :
          update_device_preferences(k, data, now)
    \/ \E k \in PreferenceKeys : delete_user_preferences(k)
    \/ \E k \in PreferenceKeys : delete_device_preferences(k)

SpecPreferences == Init /\ [][NextPreferences]_vars

-----------------------------------------------------------------------------
(* The inventory store alone, rows created and then overwritten by PUT       *)
(* payloads that differ in which fields they give and in which they null,   *)
(* with a clock that every PUT advances until it shows its last time        *)

UpdatedPosts ==
    {With([part_number |-> pn, quantity |-> 1], "description",
          Some(Some(<<"a">>))) : pn \in PartNumbers}

UpdatePuts ==
    {With(<< >>, "part_number", pn) :
        pn \in {None, Some(None), Some(Some(<<"P", "2">>))}}
        \cup {[quantity |-> None, description |-> Some(<<"b">>)],
              [description |-> None]}

NextUpdate ==
    \/ \E body \in UpdatedPosts :
          create_inventory_item_new(body, clock, clock)
    \/ \E item_id \in ItemIds, body \in UpdatePuts :
          update_inventory_item(item_id, body, Min({clock + 1, MaxClock}))

SpecUpdate == Init /\ [][NextUpdate]_vars

-----------------------------------------------------------------------------
(* The inventory store alone, rows created, merged into and overwritten at  *)
(* the times a clock that never goes back shows                             *)

StampedPosts == {[part_number |-> pn, quantity |-> 0] : pn \in PartNumbers}

StampedPuts == {<< >>, [description |-> Some(<<"b">>)]}

NextStamped ==
    \/ \E body \in StampedPosts, now \in Later :
          create_inventory_item_existing(body, now)
    \/ \E body \in StampedPosts, now1 \in Later :
          \E now2 \in now1..MaxClock :
             create_inventory_item_new(body, now1, now2)
    \/ \E item_id \in ItemIds, body \in StampedPuts, now \in Later :
          update_inventory_item(item_id, body, now)

SpecStamped == Init /\ [][NextStamped]_vars

-----------------------------------------------------------------------------
(* The users store alone, with logins taken by two worker processes: each   *)
(* loads the row and commits in a step of its own                           *)

Workers == {1, 2}

RacingUsers ==
    {[username |-> "ann", subteam |-> "electrical"],
     [username |-> "ann", subteam |-> "electrical", device |-> Some("d1")]}

RacingLogins == [username : {"ann"}, device : {"d1", "d2"}]

NextRace ==
    \/ \E body \in RacingUsers : create_user(body, clock, clock)
    \/ \E user_id \in UserIds : delete_user(user_id)
    \/ \E worker \in Workers, login_data \in RacingLogins :
          login_user_query(worker, login_data)
    \/ \E worker \in Workers, now \in Later : login_user_commit(worker, now)

SpecRace == Init /\ [][NextRace]_vars

-----------------------------------------------------------------------------
(* The users store alone, two users created, logged in by two worker        *)
(* processes and deleted, at one time                                       *)

LifecycleUsers ==
    {[username |-> "ann", subteam |-> "electrical"],
     [username |-> "bob", subteam |-> "mechanical", device |-> Some("d1")]}

LifecycleLogins == [username : {"ann"}, device : {"d1", "d2"}]

NextLifecycle ==
    \/ \E body \in LifecycleUsers : create_user(body, clock, clock)
    \/ \E user_id \in UserIds : delete_user(user_id)
    \/ \E worker \in Workers, login_data \in LifecycleLogins :
          login_user_query(worker, login_data)
    \/ \E worker \in Workers : login_user_commit(worker, clock)

SpecLifecycle == Init /\ [][NextLifecycle]_vars

-----------------------------------------------------------------------------
(* The three stores side by side: records are created and deleted           *)

StoredPosts ==
    {[part_number |-> pn, quantity |-> 1] : pn \in PartNumbers}

StoredUsers == {[username |-> u, subteam |-> "electrical"] : u \in Usernames}

StoredPreferences ==
    [device_id : {"d1"}, preferences : {<<<<"theme", "dark">>>>}]

NextStores ==
    \/ \E body \in StoredPosts : create_inventory_item_new(body, clock, clock)
    \/ \E item_id \in ItemIds : delete_inventory_item(item_id)
    \/ \E body \in StoredUsers : create_user(body, clock, clock)
    \/ \E user_id \in UserIds : delete_user(user_id)
    \/ \E k \in PreferenceKeys, data \in StoredPreferences :
          update_user_preferences(k, data, clock)
    \/ \E k \in PreferenceKeys : delete_user_preferences(k)
    \/ \E k \in PreferenceKeys : delete_device_preferences(k)

SpecStores == Init /\ [][NextStores]_vars

-----------------------------------------------------------------------------
(* The three stores side by side, filled and then cleared by clear-data     *)
(* requests, which may fail at any of their statements; a clear-data        *)
(* request has no await, so no other request is handled in its midst        *)

NextClear ==
    \/ \E body \in StoredPosts :
          sessions = << >> /\ create_inventory_item_new(body, clock, clock)
    \/ \E body \in StoredUsers :
          sessions = << >> /\ create_user(body, clock, clock)
    \/ \E k \in PreferenceKeys, data \in StoredPreferences :
          sessions = << >> /\ update_user_preferences(k, data, clock)
    \/ \E worker \in {1} : clear_all_data_commit(worker)
    \/ \E worker \in {1} : clear_all_data_raises(worker)

SpecClear == Init /\ [][NextClear]_vars

-----------------------------------------------------------------------------
(* The inventory store alone, rows with and without a category and a        *)
(* subteam, merged into, given another part number or no quantity by PUT,   *)
(* and deleted                                                              *)

StatisticsPosts ==
    {[part_number |-> <<"P", "1">>, quantity |-> 1,
      subteam |-> Some(<<"e">>)],
     [part_number |-> <<"P", "2">>, quantity |-> 2,
      category |-> Some(<<"a">>), subteam |-> Some(<< >>)]}

StatisticsPuts ==
    {[part_number |-> Some(<<"P", "2">>)], [quantity |-> None]}

NextStatistics ==
    \/ \E body \in StatisticsPosts :
          create_inventory_item_existing(body, clock)
    \/ \E body \in StatisticsPosts :
          create_inventory_item_new(body, clock, clock)
    \/ \E item_id \in ItemIds, body \in StatisticsPuts :
          update_inventory_item(item_id, body, clock)
    \/ \E item_id \in ItemIds : delete_inventory_item(item_id)

SpecStatistics == Init /\ [][NextStatistics]_vars

-----------------------------------------------------------------------------
(* The inventory store alone, rows created and merged into by two users and *)
(* overwritten by PUT payloads that carry keys of the row that are no field *)
(* of the payload, with a clock that every merge and PUT advances until it  *)
(* shows its last time                                                      *)

FramePosts ==
    {[part_number |-> <<"P", "1">>, quantity |-> 0,
      created_by |-> Some(<<"u">>)],
     [part_number |-> <<"P", "1">>, quantity |-> 0,
      created_by |-> Some(<<"v">>)],
     [part_number |-> <<"P", "2">>, quantity |-> 0]}

FramePuts ==
    {[item_id |-> 2, created_at |-> Some(MaxClock),
      created_by |-> Some(<<"w">>), last_updated_by |-> Some(<<"w">>)],
     [created_by |-> None]}

NextFrame ==
    \/ \E body \in FramePosts :
          create_inventory_item_existing(body, Min({clock + 1, MaxClock}))
    \/ \E body \in FramePosts :
          create_inventory_item_new(body, clock, clock)
    \/ \E item_id \in ItemIds, body \in FramePuts :
          update_inventory_item(item_id, body, Min({clock + 1, MaxClock}))
    \/ \E item_id \in ItemIds : delete_inventory_item(item_id)

SpecFrame == Init /\ [][NextFrame]_vars

-----------------------------------------------------------------------------
(* The three stores with the sessions of their requests: a worker's request *)
(* gets its session from the dependency, its handler returns or raises, and *)
(* the dependency closes the session; a third worker clears all data        *)

SessionPosts == {[part_number |-> <<"P", "1">>, quantity |-> 1]}

SessionPuts == {[part_number |-> None], [description |-> Some(<<"b">>)]}

SessionUsers == {[username |-> "ann", subteam |-> "electrical"]}

SessionPreferences ==
    {[device_id |-> "d1", preferences |-> <<<<"theme", "dark">>>>]}

NextSessions ==
    \/ \E worker \in Workers, dependency \in Dependencies :
          get_db_yield(worker, dependency)
    \/ \E worker \in Yielded("get_inventory_db"), body \in SessionPosts :
          create_inventory_item_new(body, clock, clock)
              /\ get_db_finally(worker)
    \/ \E worker \in Yielded("get_inventory_db"), body \in SessionPuts :
          update_inventory_item(1, body, clock) /\ get_db_finally(worker)
    \/ \E worker \in Yielded("get_users_db"), body \in SessionUsers :
          create_user(body, clock, clock) /\ get_db_finally(worker)
    \/ \E worker \in Yielded("get_users_db") :
          delete_user(1) /\ get_db_finally(worker)
    \/ \E worker \in Yielded("get_preferences_db"),
            data \in SessionPreferences :
          update_user_preferences("ann", data, clock)
              /\ get_db_finally(worker)
    \/ \E worker \in Yielded("get_preferences_db") :
          delete_user_preferences("ann") /\ get_db_finally(worker)
    \/ \E worker \in Workers : get_db_close(worker)
    \/ \E worker \in {3} : clear_all_data_commit(worker)
    \/ \E worker \in {3} : clear_all_data_raises(worker)

\* the finally block of a dependency is run once the handler is done, and a
\* clear-data request goes on to its end
SpecSessions ==
    /\ Init /\ [][NextSessions]_vars
    /\ \A worker \in Workers : WF_vars(get_db_close(worker))
    /\ WF_vars(clear_all_data_commit(3) \/ clear_all_data_raises(3))

-----------------------------------------------------------------------------
(* Claims *)

\* the answer of a creating POST /api/inventory
AnsweredCreated == Answered(<<"Inventory item created successfully">>)

\* the answer of a merging POST /api/inventory
AnsweredMerged ==
    /\ response.status = 200
    /\ "data" \in DOMAIN response.body
    /\ "message" \in DOMAIN response.body.data
    /\ response.body.data.message[1] = "Updated existing item "

\* C1: while a part number is posted again and again, starting with no row
\* for it and with no PUT or DELETE in between, it has exactly one row and
\* the quantity of that row is the sum of the posted quantities.
C1_QuantityIsSumOfPosts ==
    \A pn \in DOMAIN posted :
        /\ Cardinality(RowsWithPartNumber(pn)) = 1
        /\ \A item_id \in RowsWithPartNumber(pn) :
              inventory_items[item_id].quantity = Some(posted[pn])

\* C1: 2 and -1 (and any number of 0) were posted for a part number and the
\* last post was merged into its row
C1_Witness ==
    /\ AnsweredMerged
    /\ \E pn \in DOMAIN posted :
          /\ posted[pn] = 1
          /\ response.body.data.message[2] = pn
          /\ response.body.data.message[4] = Some(1)

MergingPost(body) ==
    /\ create_inventory_item_existing(body, clock)
    /\ response'.status = 200

\* the row the last POST was merged into or created
PostedItem == response.body.data.itemId

\* absent, empty or whitespace-only
Blank(value) == value = None \/ Strip(Val(value)) = << >>

\* n is a substring of e when case is ignored
SubstringIgnoringCase(n, e) ==
    \E i \in 0..(Len(e) - Len(n)) :
        \A j \in 1..Len(n) : LowerChar(e[i + j]) = LowerChar(n[j])

\* C3 as stated: on a merging POST, a free-text field whose incoming value is
\* a case-insensitive substring of the existing value is stored exactly as it
\* was before, whatever whitespace surrounds the existing value.
C3_ContainedKeepsExistingExactly ==
    [][\A body \in MergePosts :
          MergingPost(body) =>
              \A f \in FreeTextFields \cap DOMAIN body :
                 LET existing == inventory_items[PostedItem'][f]
                     stored == inventory_items'[PostedItem'][f]
                 IN  (/\ body[f] # None
                      /\ existing # None
                      /\ SubstringIgnoringCase(Val(body[f]), Val(existing)))
                     => stored = existing]_vars

\* C3 amended: on a merging POST, a free-text field whose incoming value is
\* a case-insensitive substring of the existing value is stored as the
\* existing value with its surrounding whitespace trimmed when the incoming
\* value is not blank, and exactly as it was before when it is blank.
C3_ContainedKeepsExistingTrimmed ==
    [][\A body \in MergePosts :
          MergingPost(body) =>
              \A f \in FreeTextFields \cap DOMAIN body :
                 LET existing == inventory_items[PostedItem'][f]
                     stored == inventory_items'[PostedItem'][f]
                 IN  (/\ body[f] # None
                      /\ existing # None
                      /\ SubstringIgnoringCase(Val(body[f]), Val(existing)))
                     => stored = IF Blank(body[f]) THEN existing
                                 ELSE Some(Strip(Val(existing)))]_vars

\* C3: "A" was merged into a description that held "a", with or without
\* whitespace around it
C3_Witness ==
    /\ AnsweredMerged
    /\ "description" \in DOMAIN request.body
    /\ request.body.description = Some(<<"A">>)
    /\ inventory_items[PostedItem].description = Some(<<"a">>)

\* C4: on a merging POST, a free-text field whose incoming value is absent,
\* empty or whitespace-only is unchanged; otherwise, if the existing value is
\* absent, empty or whitespace-only, the field becomes the incoming value
\* with its surrounding whitespace trimmed.
C4_BlankIncomingKeepsBlankExistingTakes ==
    [][\A body \in MergePosts :
          MergingPost(body) =>
              \A f \in FreeTextFields :
                 LET incoming == IF f \in DOMAIN body THEN body[f] ELSE None
                     existing == inventory_items[PostedItem'][f]
                     stored == inventory_items'[PostedItem'][f]
                 IN  /\ Blank(incoming) => stored = existing
                     /\ ~Blank(incoming) /\ Blank(existing) =>
                           stored = Some(Strip(Val(incoming)))]_vars

\* C4: " a " was merged into a row whose description was blank
C4_Witness ==
    /\ AnsweredMerged
    /\ "description" \in DOMAIN request.body
    /\ request.body.description = Some(<<" ", "a", " ">>)
    /\ inventory_items[PostedItem].description = Some(<<"a">>)
    /\ inventory_items[PostedItem].quantity = Some(1)

\* C5: on a merging POST the stored cost becomes the incoming cost when the
\* payload gives a cost that is not null, and stays the stored cost when the
\* payload omits the cost or gives null.
C5_CostReplacedOnlyWhenGiven ==
    [][\A body \in MergePosts :
          MergingPost(body) =>
              LET existing == inventory_items[PostedItem'].cost
                  stored == inventory_items'[PostedItem'].cost
              IN  IF "cost" \in DOMAIN body /\ body.cost # None
                  THEN stored = body.cost
                  ELSE stored = existing]_vars

\* the device list of a stored user, as GET /api/users gives it
DevicesOf(table, user_id) == parse_devices(table[user_id].devices)

\* a step that handles this login and finds the user
SuccessfulLogin(login_data, now) ==
    /\ login_user(login_data, now)
    /\ response'.status = 200

Occurs(l, x) == \E i \in 1..Len(l) : l[i] = x

\* C6: every device list holds no empty string and no device twice; a login
\* with a device of the list, or with the empty string, leaves the list as it
\* is, and a login with a new device appends it at the end.
C6_DeviceListFirstSeenOrder ==
    /\ [](\A user_id \in DOMAIN users :
             LET l == DevicesOf(users, user_id)
             IN  \A i, j \in 1..Len(l) :
                    l[i] # "" /\ (l[i] = l[j] => i = j))
    /\ [][\A login_data \in DeviceLogins, now \in Times :
             SuccessfulLogin(login_data, now) =>
                 LET user_id == response'.body.data.user_id
                     before == DevicesOf(users, user_id)
                     after == DevicesOf(users', user_id)
                 IN  /\ after = IF login_data.device = ""
                                      \/ Occurs(before, login_data.device)
                                THEN before
                                ELSE before \o <<login_data.device>>
                     /\ \A other \in DOMAIN users \ {user_id} :
                           /\ other \in DOMAIN users'
                           /\ DevicesOf(users', other) =
                                  DevicesOf(users, other)]_vars

\* C6: a user with the devices d1, d2 has logged in with d1 again
C6_Witness ==
    /\ Requested(request, "POST", "/api/users/login", None,
                 [username |-> "ann", device |-> "d1"])
    /\ response.status = 200
    /\ DevicesOf(users, response.body.data.user_id) = <<"d1", "d2">>

\* C7: the second of two successive successful logins with the same username
\* and device leaves the device list as the first left it, and every
\* successful login sets last_login to the current time.
C7_RepeatedLoginKeepsListSetsLastLogin ==
    [][\A login_data \in DeviceLogins, now \in Times :
          SuccessfulLogin(login_data, now) =>
              LET user_id == response'.body.data.user_id
              IN  /\ users'[user_id].last_login = Some(now)
                  /\ repeated' =>
                        DevicesOf(users', user_id) =
                            DevicesOf(users, user_id)]_vars

\* C7: the same login was handled twice in a row, the second time later
\* than the first
C7_Witness ==
    /\ repeated
    /\ Requested(request, "POST", "/api/users/login", None,
                 [username |-> "ann", device |-> "d2"])
    /\ response.status = 200
    /\ DevicesOf(users, response.body.data.user_id) = <<"d2">>
    /\ users[response.body.data.user_id].last_login = Some(MaxClock)

\* a step that handles this POST /api/users payload
CreatingUser(body) == \E now \in Times : create_user(body, now, now)

\* C8: creating a user whose username is stored is answered 409 and changes
\* no row of the users store; no two stored users ever share a username.
C8_DuplicateUsernameConflict ==
    /\ [](\A id1, id2 \in DOMAIN users :
             users[id1].username = users[id2].username => id1 = id2)
    /\ [][\A body \in UserPosts :
             /\ CreatingUser(body)
             /\ \E id \in DOMAIN users :
                    users[id].username = Some(body.username)
             =>
                 /\ response'.status = 409
                 /\ users' = users]_vars

\* C8: a POST /api/users with a stored username was answered 409
C8_Witness ==
    /\ request.method = "POST"
    /\ request.path = <<"/api/users", None>>
    /\ response.status = 409
    /\ \E id \in DOMAIN users :
           users[id].username = Some(request.body.username)

\* the outcome of a delete of this key: the answer and the table after it
Deleted(table, after, key) ==
    IF key \notin DOMAIN table
    THEN /\ response'.status = 404
         /\ after = table
    ELSE /\ response'.status = 200
         /\ DOMAIN after = DOMAIN table \ {key}
         /\ \A k \in DOMAIN after : after[k] = table[k]

\* the ids or keys a list result names
Listed(result, column) ==
    {result.body.data[i][column] : i \in DOMAIN result.body.data}

\* C9: in each of the three stores a delete of a key that is not stored is
\* answered 404 and leaves the store unchanged; a delete of a stored key
\* removes exactly that record, the other records stay as they were, and the
\* key is in no list result until a later create or set stores it again.
C9_DeleteRemovesExactlyThatRecord ==
    [][/\ \A user_id \in UserIds :
             Requested(request', "DELETE", "/api/users/", Some(user_id),
                       None)
                 => /\ Deleted(users, users', user_id)
                    /\ user_id \notin Listed(get_all_users', "user_id")
       /\ \A item_id \in ItemIds :
             Requested(request', "DELETE", "/api/inventory/", Some(item_id),
                       None)
                 => /\ Deleted(inventory_items, inventory_items', item_id)
                    /\ item_id \notin Listed(get_all_inventory', 1)
       /\ \A k \in PreferenceKeys :
             \A route \in {"/api/preferences/user/", "/api/preferences/"} :
                Requested(request', "DELETE", route, Some(k), None)
                    => /\ Deleted(user_preferences, user_preferences', k)
                       /\ \A row \in get_all_user_preferences' :
                             row.username # k
       /\ request'.method # "POST" =>
             /\ DOMAIN users' \subseteq DOMAIN users
             /\ DOMAIN inventory_items' \subseteq DOMAIN inventory_items
             /\ DOMAIN user_preferences' \subseteq DOMAIN user_preferences]_vars

\* C9: a user was deleted while another user, two items and a preference
\* blob were stored
C9_Witness ==
    /\ Requested(request, "DELETE", "/api/users/", Some(1), None)
    /\ response.status = 200
    /\ DOMAIN users = {2}
    /\ Cardinality(DOMAIN inventory_items) = 2
    /\ user_preferences # << >>

\* C10: reading the preferences of a key is always answered 200, with the
\* blob of the latest write to the key since its last delete, and with the
\* empty object when there is no such write.
C10_GetReturnsLatestBlob ==
    \A k \in PreferenceKeys :
        /\ get_user_preferences(k).status = 200
        /\ get_device_preferences(k).status = 200
        /\ get_user_preferences(k).body.data.preferences =
               IF k \in DOMAIN written THEN written[k] ELSE << >>
        /\ get_device_preferences(k) = get_user_preferences(k)

\* C10: a key was written and then deleted while another key holds a blob
\* written at the latest time
C10_Witness ==
    /\ Requested(request, "DELETE", "/api/preferences/", Some("d1"), None)
    /\ response.status = 200
    /\ written = [k \in {"ann"} |-> <<<<"lang", "en">>>>]
    /\ user_preferences["ann"].updated_at = Some(MaxClock)
    /\ get_user_preferences("d1").body.data.preferences = << >>

\* the quantities of the stored items added up, with none of them missing
StoredQuantity ==
    Sum([id \in DOMAIN inventory_items |->
            IF inventory_items[id].quantity = None THEN 0
            ELSE Val(inventory_items[id].quantity)])

\* C11: in every state that POST, PUT and DELETE requests on the inventory
\* lead to, the statistics query is answered 200 with totalItems the number
\* of stored rows and totalQuantity the sum of their quantities.
C11_StatisticsSucceedWithTotals ==
    /\ get_inventory_statistics.status = 200
    /\ get_inventory_statistics.body.data.totalItems =
           Cardinality(DOMAIN inventory_items)
    /\ get_inventory_statistics.body.data.totalQuantity = StoredQuantity

\* C12: the inventory statistics are answered 200 with a totalValue that is
\* the sum over the stored items of cost times quantity, rounded to two
\* decimals.
C12_StatisticsReportTotalValue ==
    \A answer \in {get_inventory_statistics} \cup get_inventory_stats :
        /\ answer.status = 200
        /\ "totalValue" \in DOMAIN answer.body.data
        /\ answer.body.data.totalValue \in Round2(TotalValue)

\* C13: a login with a username that no stored user has is answered 404 and
\* leaves the users store, with every device list and last_login, as it was.
C13_LoginUnknownUserNotFound ==
    [][\A login_data \in DeviceLogins :
          /\ Requested(request', "POST", "/api/users/login", None, login_data)
          /\ \A id \in DOMAIN users :
                users[id].username # Some(login_data.username)
          => /\ response'.status = 404
             /\ users' = users]_vars

\* C13: a login with a new device for a username that is not stored was
\* answered 404 while another user was stored
C13_Witness ==
    /\ Requested(request, "POST", "/api/users/login", None,
                 [username |-> "bob", device |-> "d2"])
    /\ response.status = 404
    /\ \E id \in DOMAIN users : users[id].username = Some("ann")
    /\ \A id \in DOMAIN users : users[id].username # Some("bob")

\* the outcome of a PUT of this payload on a stored row: the fields the
\* payload gives hold what it gives, null included, the other fields except
\* updated_at and all other rows are as before
Overwritten(item_id, body) ==
    /\ response'.status = 200
    /\ DOMAIN inventory_items' = DOMAIN inventory_items
    /\ \A f \in InventoryItemFields :
          inventory_items'[item_id][f] =
              IF f \in DOMAIN body THEN body[f]
              ELSE IF f = "updated_at" THEN inventory_items'[item_id][f]
              ELSE inventory_items[item_id][f]
    /\ \A id \in DOMAIN inventory_items \ {item_id} :
          inventory_items'[id] = inventory_items[id]

\* C14 as stated: a PUT on a stored id overwrites exactly the fields the
\* payload gives, a null given included, and leaves the other fields except
\* updated_at and the other rows unchanged; a PUT on an id that is not
\* stored is answered 404 and changes nothing.
C14_PutOverwritesSuppliedFields ==
    [][\A item_id \in ItemIds, body \in UpdatePuts :
          Requested(request', "PUT", "/api/inventory/", Some(item_id), body)
          => IF item_id \in DOMAIN inventory_items
             THEN Overwritten(item_id, body)
             ELSE /\ response'.status = 404
                  /\ inventory_items' = inventory_items]_vars

\* C14: a PUT on a stored id whose payload does not null the part number
\* overwrites exactly the fields the payload gives, a null given included,
\* sets updated_at to the current time and leaves the other fields and the
\* other rows unchanged; a PUT that gives part_number as null is answered
\* 500 and changes nothing; a PUT on an id that is not stored is answered
\* 404 and changes nothing.
C14_PutOverwritesSuppliedFieldsButPartNumberNull ==
    [][\A item_id \in ItemIds, body \in UpdatePuts :
          Requested(request', "PUT", "/api/inventory/", Some(item_id), body)
          => IF item_id \notin DOMAIN inventory_items
             THEN /\ response'.status = 404
                  /\ inventory_items' = inventory_items
             ELSE IF "part_number" \in DOMAIN body /\ body.part_number = None
             THEN /\ response'.status = 500
                  /\ inventory_items' = inventory_items
             ELSE /\ Overwritten(item_id, body)
                  /\ inventory_items'[item_id].updated_at = Some(clock')]_vars

\* C14: a PUT that nulls the quantity and gives a description, and nothing
\* else, was stored at a later time in one of two rows
C14_Witness ==
    /\ Requested(request, "PUT", "/api/inventory/", Some(1),
                 [quantity |-> None, description |-> Some(<<"b">>)])
    /\ response.status = 200
    /\ Cardinality(DOMAIN inventory_items) = 2
    /\ inventory_items[1].quantity = None
    /\ inventory_items[1].description = Some(<<"b">>)
    /\ inventory_items[1].part_number = Some(<<"P", "1">>)
    /\ inventory_items[1].created_at = Some(0)
    /\ inventory_items[1].updated_at = Some(MaxClock)

PreferenceRoutes == {"/api/preferences/user/", "/api/preferences/"}

\* the outcome of a set of this blob for this key, whichever route took it
PreferencesSet(k, preference_data) ==
    /\ response' = OkMessage(<<"Preferences updated for user ", k>>)
    /\ DOMAIN user_preferences' = DOMAIN user_preferences \cup {k}
    /\ user_preferences'[k].preferences =
           JsonDumpsDict(preference_data.preferences)
    /\ \A j \in DOMAIN user_preferences \ {k} :
          user_preferences'[j] = user_preferences[j]

\* the outcome of a delete of this key, whichever route took it
PreferencesDeleted(k) ==
    /\ Deleted(user_preferences, user_preferences', k)
    /\ response' =
           IF k \in DOMAIN user_preferences
           THEN OkMessage(<<"Preferences deleted for user ", k>>)
           ELSE Error(404, "User preferences not found")

\* C15: a get, a set and a delete through /api/preferences/{device_id} have
\* the answer and the effect on the preferences store that the same
\* operation through /api/preferences/user/{username} has with the same
\* string: both routes read and write one namespace.
C15_DeviceRouteIsUserRoute ==
    /\ [](\A k \in PreferenceKeys :
             get_device_preferences(k) = get_user_preferences(k))
    /\ [][\A k \in PreferenceKeys :
             /\ \A preference_data \in PreferenceUpdates :
                   (\/ Requested(request', "POST", "/api/preferences/user/",
                                 Some(k), preference_data)
                    \/ Requested(request', "PUT", "/api/preferences/",
                                 Some(k), preference_data))
                       => PreferencesSet(k, preference_data)
             /\ \A route \in PreferenceRoutes :
                   Requested(request', "DELETE", route, Some(k), None)
                   => PreferencesDeleted(k)]_vars

\* C15: a set through the device route for a string that is a username was
\* answered, and the user route returns the blob for that username
C15_Witness ==
    /\ request.method = "PUT"
    /\ request.path = <<"/api/preferences/", Some("ann")>>
    /\ response.status = 200
    /\ request.body.preferences # << >>
    /\ get_user_preferences("ann").body.data.preferences =
           request.body.preferences

\* C16 as stated: on a merging POST, a free-text field whose existing and
\* incoming values are both non-blank, the incoming one not a
\* case-insensitive substring of the existing one, is stored as the existing
\* value, ", " and the incoming value.
C16_DifferentValuesConcatenated ==
    [][\A body \in MergePosts :
          MergingPost(body) =>
              \A f \in FreeTextFields \cap DOMAIN body :
                 LET existing == inventory_items[PostedItem'][f]
                     stored == inventory_items'[PostedItem'][f]
                 IN  (/\ ~Blank(body[f])
                      /\ ~Blank(existing)
                      /\ ~SubstringIgnoringCase(Val(body[f]), Val(existing)))
                     => stored = Some(Val(existing) \o <<",", " ">>
                                          \o Val(body[f]))]_vars

\* C16 amended: on a merging POST, a free-text field whose existing and
\* incoming values are both non-blank, the trimmed incoming one not a
\* case-insensitive substring of the trimmed existing one, is stored as the
\* trimmed existing value, ", " and the trimmed incoming value.
C16_DifferentValuesConcatenatedTrimmed ==
    [][\A body \in MergePosts :
          MergingPost(body) =>
              \A f \in FreeTextFields \cap DOMAIN body :
                 LET existing == inventory_items[PostedItem'][f]
                     stored == inventory_items'[PostedItem'][f]
                 IN  (/\ ~Blank(body[f])
                      /\ ~Blank(existing)
                      /\ ~SubstringIgnoringCase(Strip(Val(body[f])),
                                                Strip(Val(existing))))
                     => stored = Some(Strip(Val(existing)) \o <<",", " ">>
                                          \o Strip(Val(body[f])))]_vars

\* C16: "b" was merged into a description, which now holds "a, b"
C16_Witness ==
    /\ AnsweredMerged
    /\ "description" \in DOMAIN request.body
    /\ request.body.description = Some(<<"b">>)
    /\ inventory_items[PostedItem].description = Some(<<"a", ",", " ", "b">>)

\* C17: every POST /api/inventory writes exactly one row: it is answered
\* with the id of a row that it added, or merged into while the number of
\* rows stayed the same, and every other row is as before.
C17_PostWritesExactlyOneRow ==
    [][\A body \in InventoryPosts :
          Requested(request', "POST", "/api/inventory", None, body) =>
              /\ response'.status = 200
              /\ LET written_id == response'.body.data.itemId
                 IN  /\ written_id \in DOMAIN inventory_items'
                     /\ DOMAIN inventory_items' =
                            DOMAIN inventory_items \cup {written_id}
                     /\ \A id \in DOMAIN inventory_items \ {written_id} :
                           inventory_items'[id] = inventory_items[id]]_vars

\* C18: with a clock that never goes back, every stored item has
\* updated_at >= created_at: a POST that merges and a PUT set updated_at to
\* the current time, and no request changes the created_at of a row.
C18_UpdatedAtNotBeforeCreatedAt ==
    /\ [](\A id \in DOMAIN inventory_items :
             /\ inventory_items[id].created_at # None
             /\ inventory_items[id].updated_at # None
             /\ Val(inventory_items[id].updated_at) >=
                    Val(inventory_items[id].created_at))
    /\ [][/\ \A id \in DOMAIN inventory_items :
                /\ id \in DOMAIN inventory_items'
                /\ inventory_items'[id].created_at =
                       inventory_items[id].created_at
                /\ inventory_items'[id] # inventory_items[id] =>
                       inventory_items'[id].updated_at = Some(clock')
          /\ clock' >= clock]_vars

\* C18: a row created at the first time was merged into at the last time
C18_Witness ==
    /\ AnsweredMerged
    /\ inventory_items[PostedItem].created_at = Some(0)
    /\ inventory_items[PostedItem].updated_at = Some(MaxClock)
    /\ \E id \in DOMAIN inventory_items :
          Val(inventory_items[id].updated_at) >
              Val(inventory_items[id].created_at)

\* C19: a login reads the device list and writes it back with no lock in
\* between: the list a login commits is the list it read with its device
\* added, whatever another login has committed since, so that of two logins
\* of one user with two new devices, both read before either commits, the
\* second commit leaves only its own device in the list.
C19_LoginWritesBackWhatItRead ==
    [][\A worker \in DOMAIN sessions :
          /\ sessions[worker].handler = "login_user"
          /\ worker \notin DOMAIN sessions'
          /\ response'.status = 200
          => LET session == sessions[worker]
                 read == parse_devices(session.user.devices)
                 device == session.login_data.device
             IN  IF Occurs(read, device)
                 THEN users'[session.user_id].devices =
                          users[session.user_id].devices
                 ELSE DevicesOf(users', session.user_id) =
                          Append(read, device)]_vars

\* C19: two logins of a user with no device, one with d1 and one with d2,
\* have both been answered 200 and the device list holds d2 alone
C19_Witness ==
    /\ sessions = << >>
    /\ response.status = 200
    /\ request.body = [username |-> "ann", device |-> "d1"]
    /\ \E user_id \in DOMAIN users :
          /\ users[user_id].username = Some("ann")
          /\ users[user_id].created_at = Some(0)
          /\ users[user_id].last_login = Some(MaxClock)
          /\ DevicesOf(users, user_id) = <<"d2">>

\* C20: a clear-data request clears and commits Users, then Inventory, then
\* Preferences: each of its steps changes one store only, and only by
\* emptying it; Inventory is emptied only when Users is empty and
\* Preferences only when Inventory is; while the request is under way the
\* stores it has committed are empty; the step that ends the request with a
\* failure changes no store, so that the stores committed before it stay
\* empty and the later ones keep their rows; when the request ends with
\* success the three stores are empty.
C20_ClearsUsersInventoryPreferencesInOrder ==
    /\ [](\A worker \in DOMAIN sessions :
             sessions[worker].handler = "clear_all_data" =>
                 /\ Len(sessions[worker].committed) \in {1, 2}
                 /\ users = << >>
                 /\ Len(sessions[worker].committed) = 2 =>
                        inventory_items = << >>)
    /\ [][Requested(request', "POST", "/api/admin/clear-data", None, None)
          => /\ users' # users =>
                   /\ users' = << >>
                   /\ inventory_items' = inventory_items
                   /\ user_preferences' = user_preferences
             /\ inventory_items' # inventory_items =>
                   /\ inventory_items' = << >>
                   /\ users = << >> /\ users' = << >>
                   /\ user_preferences' = user_preferences
             /\ user_preferences' # user_preferences =>
                   /\ user_preferences' = << >>
                   /\ users = << >> /\ users' = << >>
                   /\ inventory_items = << >> /\ inventory_items' = << >>
             /\ (sessions' = << >> /\ response'.status = 500) =>
                   /\ users' = users
                   /\ inventory_items' = inventory_items
                   /\ user_preferences' = user_preferences
             /\ (sessions' = << >> /\ response'.status = 200) =>
                   /\ users' = << >>
                   /\ inventory_items' = << >>
                   /\ user_preferences' = << >>]_vars

\* C20: a clear-data request has committed the clearing of the users, two of
\* them, the second created by the request answered just before it: the
\* users store is empty, the inventory and the preferences hold their rows
C20_Witness ==
    /\ Requested(request, "POST", "/api/admin/clear-data", None, None)
    /\ 1 \in DOMAIN sessions
    /\ sessions[1].committed = <<"users">>
    /\ response.status = 200
    /\ response = OkData([userId |-> 2,
                          message |-> <<"User created successfully">>])
    /\ users = << >>
    /\ Cardinality(DOMAIN inventory_items) = 2
    /\ DOMAIN user_preferences = PreferenceKeys

\* the session that a dependency gave to the request of this worker, in this
\* position
SessionAt(worker, position) ==
    /\ worker \in DOMAIN sessions
    /\ sessions[worker].handler \in Dependencies
    /\ sessions[worker].position = position

\* C21: every request gets a session of its own from its dependency: a
\* handler's step moves the session of one request only, from the yield to
\* the finally block; a session in the finally block, whether the handler
\* returned or raised, is closed in the end, and until then its worker
\* takes no other request; a worker takes a request only when the session
\* of its last one is closed; a clear-data request that has begun comes to
\* its end, and when it is answered, by 200 or by 500, its sessions are
\* closed.
C21_SessionClosedOnceRequestCompleted ==
    /\ \A worker \in Workers :
          SessionAt(worker, "finally") ~> SessionAt(worker, "closed")
    /\ (3 \in DOMAIN sessions) ~> (3 \notin DOMAIN sessions)
    /\ [][\A worker \in Workers :
             /\ SessionAt(worker, "finally") =>
                   /\ SessionAt(worker, "finally")' \/ SessionAt(worker, "closed")'
                   /\ sessions'[worker].handler = sessions[worker].handler
                   /\ sessions'[worker].outcome = sessions[worker].outcome
             /\ SessionAt(worker, "yield")' =>
                   \/ worker \notin DOMAIN sessions
                   \/ SessionAt(worker, "closed")
                   \/ /\ SessionAt(worker, "yield")
                      /\ sessions'[worker] = sessions[worker]
             /\ (SessionAt(worker, "yield") /\ SessionAt(worker, "finally")') =>
                   /\ sessions'[worker].outcome =
                          IF response'.status = 200 THEN "returned"
                          ELSE "raised"
                   /\ \A other \in DOMAIN sessions \ {worker} :
                          sessions'[other] = sessions[other]]_vars
    /\ [][(3 \in DOMAIN sessions /\ 3 \notin DOMAIN sessions') =>
             /\ Requested(request', "POST", "/api/admin/clear-data", None,
                          None)
             /\ response'.status \in {200, 500}]_vars

\* C21: the request of a worker was answered 409, its handler having raised
\* Conflict, and its session is closed
C21_Witness ==
    /\ SessionAt(1, "closed")
    /\ sessions[1].handler = "get_users_db"
    /\ sessions[1].outcome = "raised"
    /\ Requested(request, "POST", "/api/users", None,
                 [username |-> "ann", subteam |-> "electrical"])
    /\ response.status = 409

IsPrefix(a, b) == Len(a) <= Len(b) /\ \A i \in 1..Len(a) : a[i] = b[i]

\* whether this step answers a login for the username of this row with 200
LoggedIn(user_id) ==
    /\ response'.status = 200
    /\ "data" \in DOMAIN response'.body
    /\ "username" \in DOMAIN response'.body.data
    /\ response'.body.data.username = users[user_id].username

\* C22 as stated: from a step to the next a stored user keeps its username,
\* category and subteam, its device list has the earlier one as a prefix, and
\* the list changes only in a step that answers a login for its username
\* with 200.
C22_DeviceListOnlyGrows ==
    [][\A user_id \in DOMAIN users \cap DOMAIN users' :
          /\ users'[user_id].username = users[user_id].username
          /\ users'[user_id].category = users[user_id].category
          /\ users'[user_id].subteam = users[user_id].subteam
          /\ IsPrefix(DevicesOf(users, user_id), DevicesOf(users', user_id))
          /\ users'[user_id].devices # users[user_id].devices =>
                LoggedIn(user_id)]_vars

\* C22: from a step to the next a stored user keeps its username, category
\* and subteam; its device list changes only in the step in which a login
\* commits to its row, and is then the list that login read with its device
\* appended; it has the earlier list as a prefix when the row holds what the
\* login read.
C22_DeviceListChangesOnlyByLoginCommit ==
    [][\A user_id \in DOMAIN users \cap DOMAIN users' :
          /\ users'[user_id].username = users[user_id].username
          /\ users'[user_id].category = users[user_id].category
          /\ users'[user_id].subteam = users[user_id].subteam
          /\ users'[user_id].devices # users[user_id].devices =>
                \E worker \in DOMAIN sessions \ DOMAIN sessions' :
                   LET session == sessions[worker]
                       read == parse_devices(session.user.devices)
                   IN  /\ session.handler = "login_user"
                       /\ session.user_id = user_id
                       /\ response'.status = 200
                       /\ ~Occurs(read, session.login_data.device)
                       /\ DevicesOf(users', user_id) =
                              Append(read, session.login_data.device)
                       /\ session.user.devices = users[user_id].devices =>
                              IsPrefix(DevicesOf(users, user_id),
                                       DevicesOf(users', user_id))]_vars

\* C22: two logins of ann, with d1 and then with d2, each committed before
\* the next was taken, have made her device list d1, d2 beside bob's row
C22_Witness ==
    /\ sessions = << >>
    /\ response.status = 200
    /\ Requested(request, "POST", "/api/users/login", None,
                 [username |-> "ann", device |-> "d2"])
    /\ \E user_id, other \in DOMAIN users :
          /\ users[user_id].username = Some("ann")
          /\ users[user_id].subteam = Some("electrical")
          /\ DevicesOf(users, user_id) = <<"d1", "d2">>
          /\ users[other].username = Some("bob")

\* whether no two rows of this table hold one part number
OnePerPartNumber(table) ==
    \A id, other \in DOMAIN table :
       table[id].part_number = table[other].part_number => id = other

\* C23: a POST or a DELETE of the inventory leaves at most one row per part
\* number when there was at most one before, so that without a PUT no part
\* number is ever stored twice; a POST with a part number that several rows
\* hold creates no row, changes no row but one of them, and answers with
\* the item id of that one.
C23_OneRowPerPartNumber ==
    [][/\ (/\ request'.path[1] \in {"/api/inventory", "/api/inventory/"}
           /\ request'.method \in {"POST", "DELETE"}
           /\ OnePerPartNumber(inventory_items))
          => OnePerPartNumber(inventory_items')
       /\ \A body \in InventoryPosts :
             (/\ Requested(request', "POST", "/api/inventory", None, body)
              /\ Cardinality(RowsWithPartNumber(body.part_number)) > 1)
             => /\ DOMAIN inventory_items' = DOMAIN inventory_items
                /\ response'.status = 200
                /\ PostedItem' \in RowsWithPartNumber(body.part_number)
                /\ \A id \in DOMAIN inventory_items \ {PostedItem'} :
                      inventory_items'[id] = inventory_items[id]]_vars

\* merge_field(merge_field(e, n), n) = merge_field(e, n) for all e and n
MergeFieldIdempotent ==
    \A e \in MergeTexts, n \in MergeTexts :
       merge_field(merge_field(e, n), n) = merge_field(e, n)

\* C24: merge_field(merge_field(e, n), n) = merge_field(e, n) for all e, n;
\* when a payload that was merged into a stored row is posted again as the
\* next request, the second merge leaves every free-text field of the row
\* as the first left it and adds the posted quantity once more.
C24_MergeIdempotentOnFreeText ==
    /\ [](MergeFieldIdempotent)
    /\ [][\A body \in MergePosts :
             (/\ AnsweredMerged
              /\ MergingPost(body)
              /\ repeated')
             => /\ PostedItem' = PostedItem
                /\ \A f \in FreeTextFields :
                      inventory_items'[PostedItem][f] =
                          inventory_items[PostedItem][f]
                /\ inventory_items'[PostedItem].quantity =
                       Some(Val(inventory_items[PostedItem].quantity)
                                + body.quantity)]_vars

\* C24: a payload with the description b and the quantity 1 was merged twice
\* in a row into a row created with the description a and the quantity 0
C24_Witness ==
    /\ repeated
    /\ AnsweredMerged
    /\ Requested(request, "POST", "/api/inventory", None,
                 [part_number |-> <<"P", "1">>, quantity |-> 1,
                  description |-> Some(<<"b">>)])
    /\ inventory_items[PostedItem].description = Some(<<"a", ",", " ", "b">>)
    /\ inventory_items[PostedItem].quantity = Some(2)

\* C25: whenever the statistics query gives a result, the quantities of its
\* categories add up to its totalQuantity, and so do the quantities of its
\* subteams; the items without a category are counted under Uncategorized
\* and those without a subteam under Unassigned; uniquePartNumbers is the
\* number of different part numbers among the stored rows and is at most
\* totalItems.
C25_GroupSumsAddUpToTotalQuantity ==
    get_inventory_statistics.status = 200 =>
        LET data == get_inventory_statistics.body.data
            without(column) == {id \in DOMAIN inventory_items :
                                   ~Truthy(inventory_items[id][column])}
        IN  /\ Sum(data.categories) = data.totalQuantity
            /\ Sum(data.subteams) = data.totalQuantity
            /\ without("category") # {} =>
                   Uncategorized \in DOMAIN data.categories
            /\ without("subteam") # {} =>
                   Unassigned \in DOMAIN data.subteams
            /\ \A id \in DOMAIN inventory_items :
                   /\ Truthy(inventory_items[id].category) =>
                          Val(inventory_items[id].category)
                              \in DOMAIN data.categories
                   /\ Truthy(inventory_items[id].subteam) =>
                          Val(inventory_items[id].subteam)
                              \in DOMAIN data.subteams
            /\ data.uniquePartNumbers =
                   Cardinality({inventory_items[id].part_number :
                                   id \in DOMAIN inventory_items})
            /\ data.uniquePartNumbers <= data.totalItems

\* C25: two rows hold one part number, one with the category a and an empty
\* subteam, one with no category and the subteam e, and the statistics
\* count 2 under a and Unassigned and 1 under Uncategorized and e, of a
\* total of 3
C25_Witness ==
    /\ get_inventory_statistics.status = 200
    /\ get_inventory_statistics.body.data.totalItems = 2
    /\ get_inventory_statistics.body.data.uniquePartNumbers = 1
    /\ get_inventory_statistics.body.data.totalQuantity = 3
    /\ get_inventory_statistics.body.data.categories =
           [g \in {<<"a">>, Uncategorized} |-> IF g = <<"a">> THEN 2 ELSE 1]
    /\ get_inventory_statistics.body.data.subteams =
           [g \in {<<"e">>, Unassigned} |-> IF g = <<"e">> THEN 1 ELSE 2]

\* C26: a step that is no DELETE keeps every stored row under its item id
\* with its created_at and its created_by, whatever keys the payload of a
\* PUT carries; a POST with a stored part number creates no row and, when it
\* is answered 200, names the item id of a row that held the part number.
C26_CreationFieldsNeverChange ==
    [][/\ request'.method # "DELETE" =>
             \A item_id \in DOMAIN inventory_items :
                /\ item_id \in DOMAIN inventory_items'
                /\ inventory_items'[item_id].created_at =
                       inventory_items[item_id].created_at
                /\ inventory_items'[item_id].created_by =
                       inventory_items[item_id].created_by
       /\ \A body \in FramePosts :
             (/\ Requested(request', "POST", "/api/inventory", None, body)
              /\ RowsWithPartNumber(body.part_number) # {})
             => /\ DOMAIN inventory_items' = DOMAIN inventory_items
                /\ response'.status = 200 =>
                       PostedItem' \in RowsWithPartNumber(body.part_number)]_vars

\* C26: a row created by u at time 0 and merged into by v was overwritten
\* at a later time by a PUT that carries a null created_by: it is still row
\* 1, created by u at time 0
C26_Witness ==
    /\ Requested(request, "PUT", "/api/inventory/", Some(1),
                 [created_by |-> None])
    /\ response.status = 200
    /\ inventory_items[1].created_by = Some(<<"u">>)
    /\ inventory_items[1].created_at = Some(0)
    /\ inventory_items[1].last_updated_by = Some(<<"v">>)
    /\ inventory_items[1].updated_at = Some(MaxClock)

====
